---- MODULE Spec2Model ----
(***************************************************************************)
(* A model of itchio/dash: the extension classifier, the magic sniffer,    *)
(* the tree scanner (Configure), the permission fixer and the verdict      *)
(* filter/ranker (Verdict.Filter).                                         *)
(*                                                                         *)
(* Strings.  A path is a sequence of segments (the parts between "/"); a   *)
(* segment is a sequence of components (the parts between "."); a          *)
(* component is an atom, a string without "." or "/".  "game/Game.exe" is  *)
(* << <<"game">>, <<"Game", "exe">> >>.  The empty string is << >>.        *)
(***************************************************************************)
EXTENDS Integers, Sequences, FiniteSets, TLC

VARIABLES pc,        \* position of the driver of the specification at hand
          path,      \* SpecExt: the path handed to isBlacklistedExt
          extResult, \* SpecExt: what isBlacklistedExt returned
          file,      \* SpecSniff: the file handed to Sniff
          sniffed,   \* SpecSniff: what Sniff returned
          container, \* SpecConfigure: the walked container (Dirs, Files)
          verdict,   \* the verdict's Candidates (Spec, SpecConfigure)
          params,    \* Spec: the FilterParams of the Filter calls
          disk,      \* Spec: per candidate, what opening and probing its file gives
          stages,    \* Spec: the working set after each stage of the last Filter call
          first,     \* Spec: the Candidates returned by the first Filter call
          input,     \* Spec: the Candidates of the verdict Filter was first called on
          fixed,     \* SpecConfigure: what the last FixPermissions call returned
          modes      \* SpecConfigure: the mode of each file on disk, by index

vars == <<pc, path, extResult, file, sniffed, container, verdict, params,
          disk, stages, first, input, fixed, modes>>

None == "none"

\* Go's nil pointer
Nil == [nil |-> TRUE]

(***************************************************************************)
(* Sequences.                                                              *)
(***************************************************************************)
RECURSIVE SeqsUpTo(_, _)
SeqsUpTo(S, n) ==
    IF n = 0 THEN {<< >>}
    ELSE LET shorter == SeqsUpTo(S, n - 1)
         IN  shorter \cup {Append(s, x) : s \in {t \in shorter : Len(t) = n - 1}, x \in S}

Range(s) == {s[i] : i \in 1..Len(s)}

Last(s) == s[Len(s)]

(***************************************************************************)
(* Atoms: strings.ToLower and the substrings the patterns look for.        *)
(***************************************************************************)
ToLower(a) ==
    CASE a = "Game" -> "game"
      [] a = "EXE" -> "exe"
      [] a = "SO" -> "so"
      [] a = "HTML" -> "html"
      [] a = "Index" -> "index"
      [] a = "App" -> "app"
      [] a = "Contents" -> "contents"
      [] a = "Info" -> "info"
      [] a = "VCRedist_x64" -> "vcredist_x64"
      [] a = "UnityCrashHandler64" -> "unitycrashhandler64"
      [] a = "LaunchGame" -> "launchgame"
      [] a = "libSDL" -> "libsdl"
      [] a = "Setup" -> "setup"
      [] a = "Manual" -> "manual"
      [] a = "MacOS" -> "macos"
      [] a = "Empty" -> "empty"
      [] OTHER -> a

LowerSeg(seg) == [i \in 1..Len(seg) |-> ToLower(seg[i])]

LowerPath(p) == [i \in 1..Len(p) |-> LowerSeg(p[i])]

\* the decimal atoms: what [0-9]+ matches
IsNumeric(a) == a \in {"0", "2"}

(***************************************************************************)
(* The extension classifier.                                               *)
(***************************************************************************)
\* an extension: the final dot-suffix, or the empty string
NoExt == << >>

Ext(k) == <<".", k>>

fileExtBlacklist ==
    {Ext(k) : k \in {"bmp", "tga", "png", "gif", "jpg", "jpeg", "asar", "ogg", "wav",
                     "mp3", "mp4", "mpg", "avi", "js", "py", "rb", "go", "c", "h",
                     "c++", "cxx", "cpp", "json", "xml", "pak", "dll", "so", "dylib",
                     "otf", "ttf", "packedfont", "cso", "glsl", "out", "roobos",
                     "ds_store", "db", "sql", "sqlite", "txt", "ini", "conf",
                     "config", "cfg", "dat", "map"}}

\* filepath.Base: the last segment ("." for the empty path)
Base(p) == IF Len(p) = 0 THEN <<".">> ELSE Last(p)

\* the lowercased final dot-suffix of the basename, the dot included
getExt(p) ==
    LET b == Base(p)
    IN  IF Len(b) < 2 THEN NoExt ELSE Ext(ToLower(Last(b)))

\* (?i)\.so(\.[0-9]+)*$
soPattern(p) ==
    Len(p) > 0 /\
    LET b == Last(p)
    IN  \E i \in 2..Len(b) :
            /\ ToLower(b[i]) = "so"
            /\ \A j \in (i + 1)..Len(b) : IsNumeric(b[j])

isBlacklistedExt(p) ==
    \/ getExt(p) \in fileExtBlacklist
    \/ soPattern(p)

\* strings.HasSuffix(strings.ToLower(path), "." + e), for an atom e
HasDotSuffix(p, e) ==
    Len(p) > 0 /\ Len(Last(p)) >= 2 /\ ToLower(Last(Last(p))) = e

\* the lowercased path ends with "." and the atom e
hasExt(p, e) == HasDotSuffix(p, e)

\* the number of segments of a path
pathDepth(p) == Len(p)

(***************************************************************************)
(* SpecExt: isBlacklistedExt applied to one path.                          *)
(***************************************************************************)
MaxExtLen == 4

ExtAtoms == {"exe", "bat", "x86", "x86_64", "umap", "so", "SO", "2", "0"}

ExtDirs == {<< >>, << <<"game">> >>, << <<"libs">>, <<"x86_64">> >>}

ExtStems == {"game", "libSDL"}

ExtPaths ==
    {Append(d, <<s>> \o e) : d \in ExtDirs, s \in ExtStems, e \in SeqsUpTo(ExtAtoms, MaxExtLen)}

Idle ==
    /\ file = None /\ sniffed = None /\ container = None /\ verdict = None
    /\ params = None /\ disk = None /\ stages = None /\ first = None
    /\ input = None /\ fixed = None /\ modes = None

InitExt ==
    /\ pc = "ext"
    /\ path \in ExtPaths
    /\ extResult = None
    /\ Idle

CheckExt ==
    /\ pc = "ext"
    /\ extResult' = isBlacklistedExt(path)
    /\ pc' = "extDone"
    /\ UNCHANGED <<path, file, sniffed, container, verdict, params, disk, stages,
                   first, input, fixed, modes>>

NextExt == CheckExt

SpecExt == InitExt /\ [][NextExt]_vars

(***************************************************************************)
(* Candidates.                                                             *)
(***************************************************************************)
FlavorNativeLinux == "linux"
FlavorNativeMacos == "macos"
FlavorNativeWindows == "windows"
FlavorAppMacos == "app-macos"
FlavorScript == "script"
FlavorScriptWindows == "windows-script"
FlavorJar == "jar"
FlavorHTML == "html"
FlavorLove == "love"
FlavorMSI == "msi"

Arch386 == "386"
ArchAmd64 == "amd64"

\* a *Candidate with Go's zero values; id stands for the pointer
Candidate(flavor, p) ==
    [Flavor |-> flavor, Path |-> p, Depth |-> 0, Size |-> 0, Mode |-> 0,
     Arch |-> "", Spell |-> "", WindowsInfo |-> Nil, id |-> 0]

\* the pointers of a list of candidates
Ids(cs) == {cs[i].id : i \in 1..Len(cs)}

(***************************************************************************)
(* The magic sniffer.  A file is [Path, Size, Mode, content, probe, arch,  *)
(* spell]: content is what the reader yields from its position (at most    *)
(* the first 8 bytes matter), probe is what the format probe of the file   *)
(* answers ("hit", "miss" or "err"), arch the architecture a probe         *)
(* detects, spell what spellbook.Identify says of the file.                *)
(***************************************************************************)
JavaSpell == "compiled Java class data,"
MachSpell == "Mach-O universal binary"

Ok(c) == [c |-> c, err |-> FALSE]
Fail == [c |-> Nil, err |-> TRUE]

\* filepath.Dir: all but the last segment ("." when nothing is left)
Dir(p) == IF Len(p) <= 1 THEN << <<".">> >> ELSE SubSeq(p, 1, Len(p) - 1)

sniffLove(f, dir) ==
    CASE f.probe = "hit" -> Ok(Candidate(FlavorLove, dir))
      [] f.probe = "miss" -> Ok(Nil)
      [] OTHER -> Fail

sniffPE(f) ==
    CASE f.probe = "hit" ->
            Ok([Candidate(FlavorNativeWindows, << >>) EXCEPT
                   !.Arch = f.arch,
                   !.WindowsInfo = [InstallerType |-> "", Gui |-> TRUE]])
      [] f.probe = "miss" -> Ok(Nil)
      [] OTHER -> Fail

sniffELF(f) ==
    CASE f.probe = "hit" -> Ok([Candidate(FlavorNativeLinux, << >>) EXCEPT !.Arch = f.arch])
      [] f.probe = "miss" -> Ok(Nil)
      [] OTHER -> Fail

sniffScript(f) ==
    CASE f.probe = "hit" -> Ok(Candidate(FlavorScript, << >>))
      [] f.probe = "miss" -> Ok(Nil)
      [] OTHER -> Fail

sniffZip(f) ==
    CASE f.probe = "hit" -> Ok(Candidate(FlavorJar, << >>))
      [] f.probe = "miss" -> Ok(Nil)
      [] OTHER -> Fail

sniffFatMach(f) ==
    IF f.spell = JavaSpell
    THEN Ok(Nil)
    ELSE Ok([Candidate(FlavorNativeMacos, << >>) EXCEPT !.Spell = f.spell])

\* buf[from..] starts with the bytes of magic
HasMagic(buf, magic) == \A i \in 1..Len(magic) : buf[i] = magic[i]

\* sniffMagic testing only the first four bytes of the MSI magic
sniffMagicShortMSI(f) ==
    LET buf == f.content
    IN  IF Len(buf) < 8 THEN Ok(Nil)
        ELSE IF buf[1] \in {206, 207} /\ buf[2] = 250 /\ buf[3] = 237 /\ buf[4] = 254
             THEN Ok(Candidate(FlavorNativeMacos, << >>))
        ELSE IF HasMagic(buf, <<202, 254, 186, 190>>) THEN sniffFatMach(f)
        ELSE IF HasMagic(buf, <<127, 69, 76, 70>>) THEN sniffELF(f)
        ELSE IF HasMagic(buf, <<35, 33>>) THEN sniffScript(f)
        ELSE IF HasMagic(buf, <<208, 207, 17, 224>>) THEN Ok(Candidate(FlavorMSI, << >>))
        ELSE IF HasMagic(buf, <<80, 75, 3, 4>>) THEN sniffZip(f)
        ELSE Ok(Nil)

\* the tests on the leading bytes, from the read of 8 bytes on
sniffMagic(f) ==
    LET buf == f.content
    IN  IF Len(buf) < 8 THEN Ok(Nil)
        ELSE IF buf[1] \in {206, 207} /\ buf[2] = 250 /\ buf[3] = 237 /\ buf[4] = 254
             THEN Ok(Candidate(FlavorNativeMacos, << >>))
        ELSE IF HasMagic(buf, <<202, 254, 186, 190>>) THEN sniffFatMach(f)
        ELSE IF HasMagic(buf, <<127, 69, 76, 70>>) THEN sniffELF(f)
        ELSE IF HasMagic(buf, <<35, 33>>) THEN sniffScript(f)
        ELSE IF HasMagic(buf, <<208, 207, 17, 224, 161, 177, 26, 225>>)
             THEN Ok(Candidate(FlavorMSI, << >>))
        ELSE IF HasMagic(buf, <<80, 75, 3, 4>>) THEN sniffZip(f)
        ELSE Ok(Nil)

doSniff(f) ==
    LET lowerPath == LowerPath(f.Path)
        lowerBase == Base(lowerPath)
        dir == Dir(f.Path)
    IN  IF lowerBase = <<"index", "html">> THEN Ok(Candidate(FlavorHTML, f.Path))
        ELSE IF lowerBase = <<"conf", "lua">> THEN sniffLove(f, dir)
        ELSE IF HasDotSuffix(f.Path, "love") THEN Ok(Candidate(FlavorLove, f.Path))
        ELSE IF HasDotSuffix(f.Path, "exe") /\ sniffPE(f).err THEN Fail
        ELSE IF HasDotSuffix(f.Path, "exe") /\ sniffPE(f).c # Nil THEN sniffPE(f)
        ELSE IF HasDotSuffix(f.Path, "bat") \/ HasDotSuffix(f.Path, "cmd")
             THEN Ok(Candidate(FlavorScriptWindows, << >>))
        ELSE sniffMagic(f)

\* Sniff computing Depth before it defaults Path
SniffDepthFirst(f) ==
    LET r == doSniff(f)
    IN  IF r.c = Nil THEN r
        ELSE LET p == IF r.c.Path = << >> THEN f.Path ELSE r.c.Path
             IN  [r EXCEPT !.c = [r.c EXCEPT !.Size = f.Size, !.Path = p,
                                             !.Depth = pathDepth(r.c.Path)]]

Sniff(f) ==
    LET r == doSniff(f)
    IN  IF r.c = Nil THEN r
        ELSE LET p == IF r.c.Path = << >> THEN f.Path ELSE r.c.Path
             IN  [r EXCEPT !.c = [r.c EXCEPT !.Size = f.Size, !.Path = p,
                                             !.Depth = pathDepth(p)]]

(***************************************************************************)
(* SpecSniff: Sniff applied to one file.                                   *)
(***************************************************************************)
SniffNames ==
    { << <<"index", "html">> >>, << <<"web">>, <<"Index", "HTML">> >>,
      << <<"conf", "lua">> >>, << <<"game">>, <<"conf", "lua">> >>,
      << <<"game", "love">> >>, << <<"game", "exe">> >>, << <<"Game", "EXE">> >>,
      << <<"run", "bat">> >>, << <<"game">>, <<"run", "cmd">> >>,
      << <<"game">> >>, << <<"game">>, <<"game", "x86_64">> >>,
      << <<"game", "jar">> >>, << <<"page", "html">> >>, << <<"installer", "msi">> >> }

SniffContents ==
    { << >>,
      <<35, 33>>,
      <<206, 250, 237, 254, 7, 0, 0>>,
      <<206, 250, 237, 254, 7, 0, 0, 1>>,
      <<207, 250, 237, 254, 7, 0, 0, 1>>,
      <<254, 237, 250, 206, 0, 0, 0, 18>>,
      <<202, 254, 186, 190, 0, 0, 0, 2>>,
      <<127, 69, 76, 70, 2, 1, 1, 0>>,
      <<35, 33, 47, 98, 105, 110, 47, 115>>,
      <<208, 207, 17, 224, 161, 177, 26, 225>>,
      <<208, 207, 17, 224, 0, 0, 0, 0>>,
      <<80, 75, 3, 4, 20, 0, 0, 0>>,
      <<77, 90, 144, 0, 3, 0, 0, 0>>,
      <<60, 33, 68, 79, 67, 84, 89, 80>> }

Probes == {"hit", "miss", "err"}

Spells == {JavaSpell, MachSpell}

SniffFiles ==
    [Path : SniffNames, Size : {7}, Mode : {420}, content : SniffContents,
     probe : Probes, arch : {ArchAmd64}, spell : Spells]

IdleSniff ==
    /\ path = None /\ extResult = None /\ container = None /\ verdict = None
    /\ params = None /\ disk = None /\ stages = None /\ first = None
    /\ input = None /\ fixed = None /\ modes = None

InitSniff ==
    /\ pc = "sniff"
    /\ file \in SniffFiles
    /\ sniffed = None
    /\ IdleSniff

DoSniff ==
    /\ pc = "sniff"
    /\ sniffed' = Sniff(file)
    /\ pc' = "sniffDone"
    /\ UNCHANGED <<path, extResult, file, container, verdict, params, disk, stages,
                   first, input, fixed, modes>>

NextSniff == DoSniff

SpecSniff == InitSniff /\ [][NextSniff]_vars

(***************************************************************************)
(* The pattern blacklist of Verdict.Filter.                                *)
(***************************************************************************)
\* the words of the patterns that a lowercased atom contains
Words(a) ==
    CASE a = "unins000" -> {"unins"}
      [] a = "vcredist_x64" -> {"vcredist"}
      [] a = "unitycrashhandler64" -> {"unitycrashhandler"}
      [] a = "dxwebsetup" -> {"dxwebsetup", "setup"}
      [] a = "nacl_helper" -> {"nacl_helper"}
      [] a = "nwjc" -> {"nwjc"}
      [] a = "flixel" -> {"flixel"}
      [] a = "kick" -> {"kick"}
      [] a = "setup" -> {"setup"}
      [] a = "installer" -> {"install"}
      [] OTHER -> {}

\* the words of the patterns that a lowercased atom ends with
Tails(a) ==
    CASE a \in {"dxwebsetup"} -> {"dxwebsetup", "setup"}
      [] a \in {"nwjc", "flixel", "kick", "setup", "nacl_helper"} -> {a}
      [] OTHER -> {}

\* the path contains the word
ContainsWord(p, w) ==
    \E i \in 1..Len(p) : \E j \in 1..Len(p[i]) : w \in Words(ToLower(p[i][j]))

\* (?i)<w>\.<e>$ : the path ends with the word, a dot and the atom e
EndsWordDot(p, w, e) ==
    /\ HasDotSuffix(p, e)
    /\ w \in Tails(ToLower(Last(p)[Len(Last(p)) - 1]))

\* (?i)\.<m>\.<e>$
EndsDotDot(p, m, e) ==
    /\ HasDotSuffix(p, e)
    /\ Len(Last(p)) >= 3
    /\ ToLower(Last(p)[Len(Last(p)) - 1]) = m

PenaltyExclude == 0
PenaltyScore == 1

blacklist ==
    << [pattern |-> "unins.*\\.exe$", kind |-> PenaltyScore, delta |-> 50],
       [pattern |-> "kick\\.bin$", kind |-> PenaltyScore, delta |-> 50],
       [pattern |-> "\\.vshost\\.exe$", kind |-> PenaltyScore, delta |-> 50],
       [pattern |-> "nacl_helper", kind |-> PenaltyScore, delta |-> 20],
       [pattern |-> "nwjc\\.exe$", kind |-> PenaltyScore, delta |-> 20],
       [pattern |-> "flixel\\.exe$", kind |-> PenaltyScore, delta |-> 20],
       [pattern |-> "\\.(so|dylib)$", kind |-> PenaltyExclude, delta |-> 0],
       [pattern |-> "dxwebsetup\\.exe$", kind |-> PenaltyExclude, delta |-> 0],
       [pattern |-> "vcredist.*\\.exe$", kind |-> PenaltyExclude, delta |-> 0],
       [pattern |-> "unitycrashhandler.*\\.exe$", kind |-> PenaltyExclude, delta |-> 0] >>

\* entry.pattern.MatchString(path)
MatchString(pattern, p) ==
    CASE pattern = "unins.*\\.exe$" -> HasDotSuffix(p, "exe") /\ ContainsWord(p, "unins")
      [] pattern = "kick\\.bin$" -> EndsWordDot(p, "kick", "bin")
      [] pattern = "\\.vshost\\.exe$" -> EndsDotDot(p, "vshost", "exe")
      [] pattern = "nacl_helper" -> ContainsWord(p, "nacl_helper")
      [] pattern = "nwjc\\.exe$" -> EndsWordDot(p, "nwjc", "exe")
      [] pattern = "flixel\\.exe$" -> EndsWordDot(p, "flixel", "exe")
      [] pattern = "\\.(so|dylib)$" -> HasDotSuffix(p, "so") \/ HasDotSuffix(p, "dylib")
      [] pattern = "dxwebsetup\\.exe$" -> EndsWordDot(p, "dxwebsetup", "exe")
      [] pattern = "vcredist.*\\.exe$" -> HasDotSuffix(p, "exe") /\ ContainsWord(p, "vcredist")
      [] pattern = "unitycrashhandler.*\\.exe$" ->
            HasDotSuffix(p, "exe") /\ ContainsWord(p, "unitycrashhandler")

\* the loop of computeScore from entry i on
RECURSIVE scoreFrom(_, _, _)
scoreFrom(c, i, score) ==
    IF i > Len(blacklist) THEN score
    ELSE LET entry == blacklist[i]
         IN  IF MatchString(entry.pattern, c.Path)
             THEN IF entry.kind = PenaltyScore
                  THEN scoreFrom(c, i + 1, score - entry.delta)
                  ELSE scoreFrom(c, i + 1, 0)
             ELSE scoreFrom(c, i + 1, score)

computeScore(c) == [candidate |-> c, score |-> scoreFrom(c, 1, 100)]

(***************************************************************************)
(* sort.Stable with a Less of "the key of i is greater than the key of j": *)
(* keys[i] is the key of s[i].  The element at i goes behind the elements  *)
(* of greater key and behind the earlier elements of equal key.            *)
(***************************************************************************)
sortStable(s, keys) ==
    LET pos(i) == 1 + Cardinality({j \in 1..Len(s) : keys[j] > keys[i]})
                    + Cardinality({j \in 1..(i - 1) : keys[j] = keys[i]})
    IN  [n \in 1..Len(s) |-> s[CHOOSE i \in 1..Len(s) : pos(i) = n]]

\* biggestFirst without the sort
biggestFirstUnsorted(cs) == cs

biggestFirst(cs) == sortStable(cs, [i \in 1..Len(cs) |-> cs[i].Size])

HighestScoreFirst(scs) == sortStable(scs, [i \in 1..Len(scs) |-> scs[i].score])

(***************************************************************************)
(* Verdict.Filter.  cs is v.Candidates, p the FilterParams, d maps the id  *)
(* of a candidate to what os.Open and pelican.Probe give for its file:     *)
(* "openfail", "probefail", "elevated" (RequiresElevation), "noassembly"   *)
(* (probed, no elevation, AssemblyInfo nil) or "assembly".                 *)
(***************************************************************************)
\* f, the func(c *Candidate) bool, is given by the set of candidates it accepts
selectByFunc(cs, f) == SelectSeq(cs, LAMBDA c : c \in f)

selectByFlavor(cs, flavor) == selectByFunc(cs, {c \in Range(cs) : c.Flavor = flavor})

selectByArch(cs, arch) == selectByFunc(cs, {c \in Range(cs) : c.Arch = arch})

hasOS(p, os) == p.OS # "" /\ p.OS = os

excludesOS(p, os) == p.OS # "" /\ p.OS # os

hasArch(p, arch) == p.Arch # "" /\ p.Arch = arch

\* keep without the test on the architecture
keepIgnoringArch(c, p) ==
    CASE c.Flavor = FlavorNativeLinux -> ~excludesOS(p, "linux")
      [] c.Flavor = FlavorNativeWindows -> ~excludesOS(p, "windows")
      [] c.Flavor \in {FlavorNativeMacos, FlavorAppMacos} -> ~excludesOS(p, "darwin")
      [] OTHER -> TRUE

\* the keep flag of the first loop
keep(c, p) ==
    CASE c.Flavor = FlavorNativeLinux ->
            /\ ~excludesOS(p, "linux")
            /\ ~(hasArch(p, "386") /\ c.Arch # "" /\ c.Arch # Arch386)
      [] c.Flavor = FlavorNativeWindows -> ~excludesOS(p, "windows")
      [] c.Flavor \in {FlavorNativeMacos, FlavorAppMacos} -> ~excludesOS(p, "darwin")
      [] OTHER -> TRUE

\* pelican's HasSuspiciouslySetupLikeName, on a basename
HasSuspiciouslySetupLikeName(base) ==
    \E j \in 1..Len(base) : Words(ToLower(base[j])) \cap {"setup", "install"} # {}

\* the function handed to selectByFunc in the installer stage
nonInstaller(c, d) ==
    IF c.WindowsInfo # Nil /\ c.WindowsInfo.InstallerType # "" THEN FALSE
    ELSE IF d[c.id] \in {"openfail", "probefail"} THEN TRUE
    ELSE IF d[c.id] = "elevated" THEN FALSE
    ELSE IF d[c.id] = "noassembly" /\ HasSuspiciouslySetupLikeName(Base(c.Path)) THEN FALSE
    ELSE TRUE

\* the position in the cascade: the working set bestCandidates, the place of
\* the return taken ("" while running) and, as a ghost, the working set after
\* each stage so far
Narrow(st, stage, best) ==
    [best |-> best, ret |-> st.ret,
     trace |-> Append(st.trace, [stage |-> stage, best |-> best])]

Return(st, stage, best) ==
    [best |-> best, ret |-> stage,
     trace |-> Append(st.trace, [stage |-> stage, best |-> best])]

ShortCircuit(st, stage, best) ==
    IF Len(best) = 1 THEN Return(st, stage, best) ELSE Narrow(st, stage, best)

stageCompatible(cs, p) ==
    ShortCircuit([best |-> cs, ret |-> "", trace |-> << >>], "os",
                 selectByFunc(cs, {c \in Range(cs) : keep(c, p)}))

lowestDepth(cs) ==
    LET depths == {4096} \cup {cs[i].Depth : i \in 1..Len(cs)}
    IN  CHOOSE m \in depths : \A n \in depths : m <= n

\* The stages after the first: each runs unless an earlier one returned.

\* stageDepth selecting among v.Candidates instead of the compatible candidates
stageDepthFromAll(st, cs) ==
    IF st.ret # "" THEN st
    ELSE ShortCircuit(st, "depth",
                      selectByFunc(cs, {c \in Range(cs) : c.Depth = lowestDepth(cs)}))

stageDepth(st, cs) ==
    IF st.ret # "" THEN st
    ELSE ShortCircuit(st, "depth",
                      selectByFunc(st.best,
                                   {c \in Range(st.best) : c.Depth = lowestDepth(cs)}))

stageLove(st) ==
    LET loveCandidates == selectByFlavor(st.best, FlavorLove)
    IN  IF st.ret # "" THEN st
        ELSE IF Len(loveCandidates) = 1 THEN Return(st, "love", loveCandidates)
        ELSE st

stageApp(st, p) ==
    LET appCandidates == selectByFlavor(st.best, FlavorAppMacos)
    IN  IF st.ret # "" THEN st
        ELSE IF hasOS(p, "darwin") /\ Len(appCandidates) > 0
        THEN Narrow(st, "app", appCandidates)
        ELSE st

stageWindowsScript(st, p) ==
    LET scriptCandidates == selectByFlavor(st.best, FlavorScriptWindows)
    IN  IF st.ret # "" THEN st
        ELSE IF hasOS(p, "windows") /\ Len(scriptCandidates) = 1
        THEN Return(st, "windowsScript", scriptCandidates)
        ELSE st

stageLinuxScript(st, p) ==
    LET scriptCandidates == selectByFlavor(st.best, FlavorScript)
    IN  IF st.ret # "" THEN st
        ELSE IF hasOS(p, "linux") /\ Len(scriptCandidates) = 1
        THEN Return(st, "linuxScript", scriptCandidates)
        ELSE st

stageLinux64(st, p) ==
    LET linuxCandidates == selectByFlavor(st.best, FlavorNativeLinux)
        linux64Candidates == selectByArch(linuxCandidates, ArchAmd64)
        jarCandidates == selectByFlavor(st.best, FlavorJar)
    IN  IF st.ret # "" THEN st
        ELSE IF ~(hasOS(p, "linux") /\ hasArch(p, "amd64")) THEN st
        ELSE IF Len(linux64Candidates) > 0 THEN Narrow(st, "linux64", linux64Candidates)
        ELSE IF Len(jarCandidates) > 0 THEN Return(st, "linuxJar", jarCandidates)
        ELSE st

stageInstaller(st, p, d) ==
    LET windowsCandidates == selectByFlavor(st.best, FlavorNativeWindows)
        nonInstallerCandidates ==
            selectByFunc(windowsCandidates,
                         {c \in Range(windowsCandidates) : nonInstaller(c, d)})
    IN  IF st.ret # "" THEN st
        ELSE IF hasOS(p, "windows")
        THEN ShortCircuit(st, "installer", nonInstallerCandidates)
        ELSE st

stageGui(st, p) ==
    LET windowsCandidates == selectByFlavor(st.best, FlavorNativeWindows)
        guiCandidates == selectByFunc(windowsCandidates,
                                      {c \in Range(windowsCandidates) :
                                          c.WindowsInfo # Nil /\ c.WindowsInfo.Gui})
    IN  IF st.ret # "" THEN st
        ELSE IF hasOS(p, "windows")
        THEN ShortCircuit(st, "gui", IF Len(guiCandidates) > 0 THEN guiCandidates ELSE st.best)
        ELSE st

\* stageHTML keeping the HTML candidates among the others
stageHTMLKept(st) == st

stageHTML(st) ==
    LET htmlCandidates == selectByFlavor(st.best, FlavorHTML)
    IN  IF st.ret # "" THEN st
        ELSE IF Len(htmlCandidates) > 0 /\ Len(htmlCandidates) < Len(st.best)
        THEN Narrow(st, "html",
                    selectByFunc(st.best, {c \in Range(st.best) : c.Flavor # FlavorHTML}))
        ELSE st

stageJar(st) ==
    LET jarCandidates == selectByFlavor(st.best, FlavorJar)
    IN  IF st.ret # "" THEN st
        ELSE IF Len(jarCandidates) > 0 /\ Len(jarCandidates) < Len(st.best)
        THEN Narrow(st, "jar",
                    selectByFunc(st.best, {c \in Range(st.best) : c.Flavor # FlavorJar}))
        ELSE st

stageScore(st) ==
    LET sorted == biggestFirst(st.best)
        scored == [i \in 1..Len(sorted) |-> computeScore(sorted[i])]
        scoredCandidates == HighestScoreFirst(SelectSeq(scored, LAMBDA sc : sc.score > 0))
        finalCandidates == [i \in 1..Len(scoredCandidates) |-> scoredCandidates[i].candidate]
    IN  IF st.ret # "" THEN st
        ELSE Return(Narrow(st, "sort", sorted), "end", finalCandidates)

\* the cascade
FilterRun(cs, p, d) ==
    stageScore(stageJar(stageHTML(stageGui(stageInstaller(stageLinux64(
        stageLinuxScript(stageWindowsScript(stageApp(stageLove(
            stageDepth(stageCompatible(cs, p), cs)), p), p), p), p), p, d), p))))

\* v.Filter(consumer, params).Candidates
Filter(cs, p, d) == FilterRun(cs, p, d).best

(***************************************************************************)
(* Spec: Verdict.Filter called on a verdict, then called again, with the   *)
(* same parameters, on the verdict it returned.                            *)
(***************************************************************************)
MaxCandidates == 3

Gui == [InstallerType |-> "", Gui |-> TRUE]
Console == [InstallerType |-> "", Gui |-> FALSE]
Inno == [InstallerType |-> "inno", Gui |-> TRUE]

\* a candidate as Configure leaves it, and what probing its file will give
Entry(flavor, p, size, arch, info, probe) ==
    [c |-> [Candidate(flavor, p) EXCEPT !.Size = size, !.Depth = pathDepth(p),
                                        !.Mode = 493, !.Arch = arch,
                                        !.WindowsInfo = info],
     probe |-> probe]

CandidatePool ==
   << Entry(FlavorNativeLinux, << <<"game", "x86_64">> >>, 2, ArchAmd64, Nil, "probefail"),
      Entry(FlavorNativeLinux, << <<"bin">>, <<"game", "x86">> >>, 1, Arch386, Nil, "probefail"),
      Entry(FlavorNativeLinux, << <<"nacl_helper">> >>, 2, "", Nil, "probefail"),
      Entry(FlavorNativeWindows, << <<"game", "exe">> >>, 2, ArchAmd64, Gui, "assembly"),
      Entry(FlavorNativeWindows, << <<"bin">>, <<"tool", "exe">> >>, 1, Arch386, Console, "openfail"),
      Entry(FlavorNativeWindows, << <<"unins000", "exe">> >>, 1, Arch386, Inno, "assembly"),
      Entry(FlavorNativeWindows, << <<"launcher", "exe">> >>, 1, Arch386, Gui, "elevated"),
      Entry(FlavorNativeWindows, << <<"Setup", "exe">> >>, 1, Arch386, Nil, "noassembly"),
      Entry(FlavorNativeWindows, << <<"VCRedist_x64", "exe">> >>, 1, ArchAmd64, Gui, "assembly"),
      Entry(FlavorNativeMacos, << <<"game">> >>, 1, "", Nil, "probefail"),
      Entry(FlavorAppMacos, << <<"Game", "app">> >>, 0, "", Nil, "openfail"),
      Entry(FlavorScript, << <<"run", "sh">> >>, 1, "", Nil, "probefail"),
      Entry(FlavorScriptWindows, << <<"run", "bat">> >>, 1, "", Nil, "probefail"),
      Entry(FlavorHTML, << <<"index", "html">> >>, 1, "", Nil, "probefail"),
      Entry(FlavorLove, << <<"game", "love">> >>, 2, "", Nil, "probefail"),
      Entry(FlavorLove, << <<"libs", "so">> >>, 1, "", Nil, "openfail"),
      Entry(FlavorJar, << <<"game", "jar">> >>, 2, "", Nil, "probefail"),
      Entry(FlavorMSI, << <<"installer", "msi">> >>, 1, "", Nil, "probefail"),
      Entry(FlavorNativeWindows, << <<"flixel", "exe">> >>, 2, Arch386, Gui, "assembly"),
      Entry(FlavorNativeWindows, << <<"unins000", "vshost", "exe">> >>, 2, Arch386, Console, "assembly"),
      Entry(FlavorHTML, << <<"web">>, <<"page", "html">> >>, 2, "", Nil, "probefail"),
      Entry(FlavorScript, << <<"start", "sh">> >>, 2, "", Nil, "probefail") >>

\* the verdicts Filter is called on: at most MaxCandidates entries of the pool,
\* in the order of the pool or in the reverse order
Ascending(S) ==
    [n \in 1..Cardinality(S) |-> CHOOSE i \in S : Cardinality({j \in S : j < i}) = n - 1]

Descending(S) ==
    [n \in 1..Cardinality(S) |-> CHOOSE i \in S : Cardinality({j \in S : j > i}) = n - 1]

\* the subsets of 1..n of at most k elements
RECURSIVE Picks(_, _)
Picks(n, k) ==
    IF n = 0 \/ k = 0 THEN {{}}
    ELSE Picks(n - 1, k) \cup {S \cup {n} : S \in Picks(n - 1, k - 1)}

Walks ==
    LET picks == Picks(Len(CandidatePool), MaxCandidates)
    IN  {Ascending(S) : S \in picks} \cup {Descending(S) : S \in picks}

FilterParams == [OS : {"", "linux", "windows", "darwin"}, Arch : {"", "386", "amd64"}]

IdleFilter ==
    /\ path = None /\ extResult = None /\ file = None /\ sniffed = None
    /\ container = None /\ fixed = None /\ modes = None

Init ==
    /\ pc = "verdict"
    /\ \E w \in Walks :
          /\ verdict = [i \in 1..Len(w) |-> [CandidatePool[w[i]].c EXCEPT !.id = i]]
          /\ disk = [i \in 1..Len(w) |-> CandidatePool[w[i]].probe]
    /\ input = verdict
    /\ params = None
    /\ stages = None
    /\ first = None
    /\ IdleFilter

\* verdict = verdict.Filter(consumer, p)
FilterFirst ==
    /\ pc = "verdict"
    /\ \E p \in FilterParams :
          /\ params' = p
          /\ stages' = FilterRun(verdict, p, disk)
          /\ verdict' = stages'.best
          /\ first' = stages'.best
    /\ pc' = "filtered"
    /\ UNCHANGED <<path, extResult, file, sniffed, container, disk, input, fixed, modes>>

\* verdict = verdict.Filter(consumer, params) once more
FilterAgain ==
    /\ pc = "filtered"
    /\ stages' = FilterRun(verdict, params, disk)
    /\ verdict' = stages'.best
    /\ pc' = "refiltered"
    /\ UNCHANGED <<path, extResult, file, sniffed, container, params, disk, first,
                   input, fixed, modes>>

Next == FilterFirst \/ FilterAgain

Spec == Init /\ [][Next]_vars

(***************************************************************************)
(* Properties of Verdict.Filter.                                           *)
(***************************************************************************)
Filtered == pc \in {"filtered", "refiltered"}

\* stage 1 of the cascade declares the candidate incompatible with the parameters
Incompatible(c, p) ==
    \/ p.OS # "" /\ c.Flavor = FlavorNativeLinux /\ p.OS # "linux"
    \/ p.OS # "" /\ c.Flavor = FlavorNativeWindows /\ p.OS # "windows"
    \/ p.OS # "" /\ c.Flavor \in {FlavorNativeMacos, FlavorAppMacos} /\ p.OS # "darwin"
    \/ p.Arch = "386" /\ c.Flavor = FlavorNativeLinux /\ c.Arch \notin {"", "386"}

\* C1: whatever return Filter takes, its output holds no candidate that the
\* OS/arch rules of stage 1 exclude.
C1_NoIncompatibleCandidate ==
    Filtered => \A i \in 1..Len(verdict) : ~Incompatible(verdict[i], params)

\* an early return of a call whose input held an incompatible candidate
C1_Witness ==
    /\ pc = "filtered"
    /\ \E i \in 1..Len(input) : Incompatible(input[i], params)
    /\ stages.ret \notin {"", "end"}
    /\ Len(verdict) > 0

\* the working set after the named stage of the last call (<< >> if not run)
After(stage) ==
    IF \E k \in 1..Len(stages.trace) : stages.trace[k].stage = stage
    THEN stages.trace[CHOOSE k \in 1..Len(stages.trace) : stages.trace[k].stage = stage].best
    ELSE << >>

Ran(stage) == \E k \in 1..Len(stages.trace) : stages.trace[k].stage = stage

MinDepth(cs) ==
    CHOOSE m \in {cs[i].Depth : i \in 1..Len(cs)} : \A i \in 1..Len(cs) : m <= cs[i].Depth

\* C2: the minimum-depth stage keeps exactly the compatible candidates whose
\* Depth is the minimum Depth of the compatible candidates, so it never
\* empties a non-empty compatible set.
C2_DepthOverCompatible ==
    (pc = "filtered" /\ Ran("depth")) =>
        /\ After("depth") = SelectSeq(After("os"),
                                      LAMBDA c : c.Depth = MinDepth(After("os")))
        /\ (Len(After("os")) > 0 => Len(After("depth")) > 0)

\* C3: Filter called with the same parameters on its own output returns the
\* same candidates in the same order.
C3_Idempotent == pc = "refiltered" => verdict = first

\* C4: the output of Filter holds only candidates of its input, each at most
\* once, and every stage replaces the working set by a subset of it.
C4_Monotonic ==
    pc = "filtered" =>
        /\ Range(verdict) \subseteq Range(input)
        /\ Cardinality(Ids(verdict)) = Len(verdict)
        /\ verdict = stages.trace[Len(stages.trace)].best
        /\ Range(stages.trace[1].best) \subseteq Range(input)
        /\ \A k \in 2..Len(stages.trace) :
              /\ Range(stages.trace[k].best) \subseteq Range(stages.trace[k - 1].best)
              /\ Cardinality(Ids(stages.trace[k].best)) = Len(stages.trace[k].best)

\* a call that ran to the end and dropped some candidates but not all
C4_Witness ==
    /\ pc = "filtered"
    /\ stages.ret = "end"
    /\ Len(verdict) >= 2
    /\ Len(verdict) < Len(input)

\* the working set on entry of the named stage of the last call
Before(stage) ==
    stages.trace[(CHOOSE k \in 1..Len(stages.trace) : stages.trace[k].stage = stage) - 1].best

\* the installer-exclusion stage may exclude the candidate
Installer(c) ==
    /\ c.Flavor = FlavorNativeWindows
    /\ \/ c.WindowsInfo # Nil /\ c.WindowsInfo.InstallerType # ""
       \/ disk[c.id] = "elevated"
       \/ disk[c.id] = "noassembly" /\ HasSuspiciouslySetupLikeName(Base(c.Path))

\* C5: the installer-exclusion stage removes from the working set only the
\* NativeWindows candidates it finds to be installers; the candidates of other
\* flavors and the ones it cannot open or probe stay.
C5_OnlyInstallersRemoved ==
    (pc = "filtered" /\ Ran("installer")) =>
        \A c \in Range(Before("installer")) :
            c \in Range(After("installer")) <=> ~Installer(c)

\* the sum of the deltas of the penalty patterns from entry i on that match
RECURSIVE SumDeltas(_, _)
SumDeltas(c, i) ==
    IF i > Len(blacklist) THEN 0
    ELSE SumDeltas(c, i + 1)
         + (IF blacklist[i].kind = PenaltyScore /\ MatchString(blacklist[i].pattern, c.Path)
            THEN blacklist[i].delta ELSE 0)

Excluded(c) ==
    \E i \in 1..Len(blacklist) :
        blacklist[i].kind = PenaltyExclude /\ MatchString(blacklist[i].pattern, c.Path)

Positive(c) == ~Excluded(c) /\ 100 - SumDeltas(c, 1) > 0

Index(cs, c) == CHOOSE i \in 1..Len(cs) : cs[i] = c

\* a comes before b: higher score, then bigger size, then earlier in ws
Ranks(a, b, ws) ==
    LET sa == 100 - SumDeltas(a, 1)
        sb == 100 - SumDeltas(b, 1)
    IN  \/ sa > sb
        \/ sa = sb /\ a.Size > b.Size
        \/ sa = sb /\ a.Size = b.Size /\ Index(ws, a) < Index(ws, b)

\* C6: when Filter runs to the end of the cascade, its output is exactly the
\* candidates of the working set whose score (100 minus the deltas of the
\* matching penalty patterns, non-positive if an exclude pattern matches) is
\* positive, by score descending, then Size descending, then in the order of
\* the working set before the sorts.
C6_ScoredOrder ==
    (pc = "filtered" /\ stages.ret = "end") =>
        /\ Range(verdict) = {c \in Range(Before("sort")) : Positive(c)}
        /\ Cardinality(Range(verdict)) = Len(verdict)
        /\ \A i, j \in 1..Len(verdict) :
              i < j => Ranks(verdict[i], verdict[j], Before("sort"))

\* the score puts a smaller candidate first, and the scoring dropped a candidate
C6_Witness ==
    /\ pc = "filtered"
    /\ stages.ret = "end"
    /\ Len(verdict) < Len(Before("sort"))
    /\ \E i, j \in 1..Len(verdict) : i < j /\ verdict[i].Size < verdict[j].Size

(***************************************************************************)
(* Configure.  A container is [Dirs, Files] in walk order; a directory is  *)
(* [Path, Mode], a file as for Sniff.                                      *)
(***************************************************************************)
\* the candidates of the loop over container.Dirs
bundleCandidates(ct) ==
    LET isBundle(d) ==
            /\ HasDotSuffix(d.Path, "app")
            /\ \E i \in 1..Len(ct.Files) :
                  LowerPath(ct.Files[i].Path)
                      = LowerPath(d.Path) \o << <<"contents">>, <<"info", "plist">> >>
        bundles == SelectSeq(ct.Dirs, isBundle)
    IN  [i \in 1..Len(bundles) |->
            [Candidate(FlavorAppMacos, bundles[i].Path) EXCEPT
                !.Mode = bundles[i].Mode, !.Depth = pathDepth(bundles[i].Path)]]

\* the loop over container.Files from file i on: the candidates, or the error
RECURSIVE sniffFrom(_, _)
sniffFrom(ct, i) ==
    IF i > Len(ct.Files) THEN [cs |-> << >>, err |-> FALSE]
    ELSE LET f == ct.Files[i]
             res == IF isBlacklistedExt(f.Path) THEN Ok(Nil) ELSE Sniff(f)
             rest == sniffFrom(ct, i + 1)
         IN  IF res.err \/ rest.err THEN [cs |-> << >>, err |-> TRUE]
             ELSE IF res.c = Nil THEN rest
             ELSE [cs |-> <<[res.c EXCEPT !.Mode = f.Mode]>> \o rest.cs, err |-> FALSE]

\* tlc.Container.IsSingleFile
IsSingleFile(ct) == Len(ct.Files) = 1 /\ Len(ct.Dirs) = 0

htmlCandidate(f) ==
    [Candidate(FlavorHTML, f.Path) EXCEPT
        !.Size = f.Size, !.Mode = f.Mode, !.Depth = pathDepth(f.Path)]

singleFileFallback(ct, cs) ==
    IF Len(cs) = 0 /\ IsSingleFile(ct) /\ hasExt(ct.Files[1].Path, "html")
    THEN <<htmlCandidate(ct.Files[1])>>
    ELSE cs

\* topLevelFallback without the test for an empty list
topLevelFallbackAlways(ct, cs) ==
    LET tops == SelectSeq(ct.Files,
                          LAMBDA f : pathDepth(f.Path) = 1 /\ hasExt(f.Path, "html"))
    IN  cs \o [i \in 1..Len(tops) |-> htmlCandidate(tops[i])]

topLevelFallback(ct, cs) ==
    IF Len(cs) = 0
    THEN LET tops == SelectSeq(ct.Files,
                               LAMBDA f : pathDepth(f.Path) = 1 /\ hasExt(f.Path, "html"))
         IN  [i \in 1..Len(tops) |-> htmlCandidate(tops[i])]
    ELSE cs

\* Configure(root, params): the Candidates of the verdict, or the error
Configure(ct) ==
    LET sniffs == sniffFrom(ct, 1)
        cs == topLevelFallback(ct, singleFileFallback(ct, bundleCandidates(ct) \o sniffs.cs))
    IN  IF sniffs.err THEN [cs |-> << >>, err |-> TRUE]
        ELSE [cs |-> [i \in 1..Len(cs) |-> [cs[i] EXCEPT !.id = i]], err |-> FALSE]

(***************************************************************************)
(* FixPermissions.  md maps a path to the mode of the file on disk; bad is *)
(* the id of the candidate whose os.Chmod fails (0: none fails).           *)
(***************************************************************************)
\* the parameters of a FixPermissions call
FixPermissionsParams(dryRun) == [DryRun |-> dryRun]

\* mode & 0200 == 0
LacksWrite(mode) == (mode \div 128) % 2 = 0

\* mode & 0100 == 0
LacksExec(mode) == (mode \div 64) % 2 = 0

\* the loop from candidate i on
RECURSIVE fixFrom(_, _, _, _, _, _)
fixFrom(cs, i, fx, md, dryRun, bad) ==
    IF i > Len(cs) THEN [cs |-> cs, fixed |-> fx, modes |-> md, err |-> FALSE]
    ELSE LET c == cs[i]
             fixes == /\ c.Flavor \in {FlavorNativeLinux, FlavorNativeMacos, FlavorScript}
                      /\ LacksExec(c.Mode)
             done == [cs EXCEPT ![i].Mode = 0]
         IN  IF ~fixes THEN fixFrom(done, i + 1, fx, md, dryRun, bad)
             ELSE IF dryRun THEN fixFrom(done, i + 1, Append(fx, c.Path), md, dryRun, bad)
             ELSE IF c.id = bad THEN [cs |-> cs, fixed |-> << >>, modes |-> md, err |-> TRUE]
             ELSE fixFrom(done, i + 1, Append(fx, c.Path),
                          [md EXCEPT ![c.Path] = 493], dryRun, bad)

FixPermissions(cs, md, dryRun, bad) == fixFrom(cs, 1, << >>, md, dryRun, bad)

(***************************************************************************)
(* SpecConfigure: Configure on a walked folder, then any sequence of       *)
(* Filter and FixPermissions calls on the verdict, until FixPermissions    *)
(* returns an error.                                                       *)
(***************************************************************************)
MaxFiles == 2

Text == <<60, 33, 68, 79, 67, 84, 89, 80>>
Shebang == <<35, 33, 47, 98, 105, 110, 47, 115>>
Elf == <<127, 69, 76, 70, 2, 1, 1, 0>>
MachO == <<207, 250, 237, 254, 7, 0, 0, 1>>
Zip == <<80, 75, 3, 4, 20, 0, 0, 0>>
Mz == <<77, 90, 144, 0, 3, 0, 0, 0>>

File(p, mode, content, probe) ==
    [Path |-> p, Size |-> 7, Mode |-> mode, content |-> content, probe |-> probe,
     arch |-> ArchAmd64, spell |-> MachSpell]

FilePool ==
   << File(<< <<"index", "html">> >>, 420, Text, "miss"),
      File(<< <<"page", "html">> >>, 420, Text, "miss"),
      File(<< <<"Manual", "HTML">> >>, 420, Text, "miss"),
      File(<< <<"web">>, <<"page", "html">> >>, 420, Text, "miss"),
      File(<< <<"start", "html">> >>, 420, Shebang, "hit"),
      File(<< <<"game", "x86_64">> >>, 420, Elf, "hit"),
      File(<< <<"runme">> >>, 493, Elf, "hit"),
      File(<< <<"game", "exe">> >>, 420, Mz, "hit"),
      File(<< <<"broken", "exe">> >>, 420, Mz, "err"),
      File(<< <<"run", "bat">> >>, 420, << >>, "miss"),
      File(<< <<"libSDL", "so", "2">> >>, 420, Elf, "hit"),
      File(<< <<"readme", "txt">> >>, 420, Text, "miss"),
      File(<< <<"Game", "app">>, <<"Contents">>, <<"Info", "plist">> >>, 420, Text, "miss"),
      File(<< <<"Game", "app">>, <<"Contents">>, <<"MacOS">>, <<"game">> >>, 420, MachO, "miss"),
      File(<< <<"game">>, <<"conf", "lua">> >>, 420, Text, "hit"),
      File(<< <<"conf", "lua">> >>, 420, Text, "hit"),
      File(<< <<"game", "jar">> >>, 420, Zip, "hit"),
      File(<< <<"start", "sh">> >>, 420, Shebang, "hit") >>

\* the folders: at most MaxFiles files of the pool, in the order of the pool
\* or in the reverse order
FileWalks ==
    LET picks == Picks(Len(FilePool), MaxFiles)
    IN  {Ascending(S) : S \in picks} \cup {Descending(S) : S \in picks}

\* the directories of a folder with these files: every proper prefix of a
\* path of a file, shorter paths first
DirsOf(files) ==
    LET proper == UNION {{SubSeq(files[i].Path, 1, n) :
                             n \in 1..(pathDepth(files[i].Path) - 1)} : i \in 1..Len(files)}
        RECURSIVE walk(_)
        walk(S) == IF S = {} THEN << >>
                   ELSE LET d == CHOOSE x \in S : \A y \in S : Len(x) <= Len(y)
                        IN  <<[Path |-> d, Mode |-> 493]>> \o walk(S \ {d})
    IN  walk(proper)

\* an empty directory the folder may hold besides
ExtraDirs == {<< >>, <<[Path |-> << <<"Empty", "app">> >>, Mode |-> 493]>>}

ProbeOutcomes == {"openfail", "probefail", "elevated", "noassembly", "assembly"}

IdleConfigure ==
    /\ path = None /\ extResult = None /\ file = None /\ sniffed = None
    /\ params = None /\ disk = None /\ stages = None /\ first = None /\ input = None

InitConfigure ==
    /\ pc = "walked"
    /\ \E w \in FileWalks, extra \in ExtraDirs :
          LET files == [i \in 1..Len(w) |-> FilePool[w[i]]]
          IN  /\ container = [Dirs |-> DirsOf(files) \o extra, Files |-> files]
              /\ modes = [q \in {files[i].Path : i \in 1..Len(files)} |->
                             files[CHOOSE i \in 1..Len(files) : files[i].Path = q].Mode]
    /\ verdict = << >>
    /\ fixed = << >>
    /\ IdleConfigure

\* verdict, err := Configure(root, params)
CallConfigure ==
    /\ pc = "walked"
    /\ verdict' = Configure(container).cs
    /\ pc' = IF Configure(container).err THEN "configureFailed" ELSE "configured"
    /\ UNCHANGED <<path, extResult, file, sniffed, container, params, disk, stages,
                   first, input, fixed, modes>>

\* verdict = verdict.Filter(consumer, p)
CallFilter ==
    /\ pc \in {"configured", "used"}
    /\ \E p \in FilterParams, o \in ProbeOutcomes :
          /\ params' = p
          /\ verdict' = Filter(verdict, p, [i \in Ids(verdict) |-> o])
    /\ pc' = "used"
    /\ UNCHANGED <<path, extResult, file, sniffed, container, disk, stages,
                   first, input, fixed, modes>>

\* fixed, err := FixPermissions(&verdict, params)
CallFixPermissions ==
    /\ pc \in {"configured", "used"}
    /\ \E dryRun \in BOOLEAN, bad \in {0} \cup Ids(verdict) :
          LET r == FixPermissions(verdict, modes, dryRun, bad)
          IN  /\ params' = FixPermissionsParams(dryRun)
              /\ verdict' = r.cs
              /\ fixed' = r.fixed
              /\ modes' = r.modes
              /\ pc' = IF r.err THEN "fixFailed" ELSE "used"
    /\ UNCHANGED <<path, extResult, file, sniffed, container, disk, stages,
                   first, input>>

NextConfigure == CallConfigure \/ CallFilter \/ CallFixPermissions

SpecConfigure == InitConfigure /\ [][NextConfigure]_vars

(***************************************************************************)
(* Properties of the extension classifier, of Sniff and of Configure.      *)
(***************************************************************************)
\* the basename of the path ends with these atoms, dots between them
BaseEnds(p, tail) ==
    LET b == Base(p)
    IN  Len(b) > Len(tail) /\ SubSeq(b, Len(b) - Len(tail) + 1, Len(b)) = tail

\* C7: isBlacklistedExt is true exactly for a final dot-suffix in
\* fileExtBlacklist or a .so with version components; it is false for a
\* basename without a dot and for .exe, .bat, .x86 and .x86_64, and true for
\* .umap, .so, .so.2 and .so.2.0.0.
C7_TestBlacklist ==
    pc = "extDone" =>
        /\ extResult = (getExt(path) \in fileExtBlacklist \/ soPattern(path))
        /\ (Len(Base(path)) = 1 => ~extResult)
        /\ (\E e \in {"exe", "bat", "x86", "x86_64"} : BaseEnds(path, <<e>>)) => ~extResult
        /\ BaseEnds(path, <<"umap">>) => extResult
        /\ BaseEnds(path, <<"so">>) => extResult
        /\ BaseEnds(path, <<"so", "2">>) => extResult
        /\ BaseEnds(path, <<"so", "2", "0", "0">>) => extResult

\* the rules of Sniff in the order of the decision: whether the rule matches
\* the file, and what it answers
SniffRules(f) ==
    LET base == Base(LowerPath(f.Path))
        ends(e) == Len(base) >= 2 /\ Last(base) = e
        long == Len(f.content) >= 8
        magic(m) == long /\ SubSeq(f.content, 1, Len(m)) = m
    IN  << [match |-> base = <<"index", "html">>, flavor |-> FlavorHTML, probe |-> FALSE],
           [match |-> base = <<"conf", "lua">>, flavor |-> FlavorLove, probe |-> TRUE],
           [match |-> ends("love"), flavor |-> FlavorLove, probe |-> FALSE],
           [match |-> ends("exe") /\ f.probe # "miss", flavor |-> FlavorNativeWindows,
            probe |-> TRUE],
           [match |-> ends("bat") \/ ends("cmd"), flavor |-> FlavorScriptWindows,
            probe |-> FALSE],
           [match |-> ~long, flavor |-> "", probe |-> FALSE],
           [match |-> magic(<<206, 250, 237, 254>>) \/ magic(<<207, 250, 237, 254>>),
            flavor |-> FlavorNativeMacos, probe |-> FALSE],
           [match |-> magic(<<202, 254, 186, 190>>),
            flavor |-> IF f.spell = JavaSpell THEN "" ELSE FlavorNativeMacos,
            probe |-> FALSE],
           [match |-> magic(<<127, 69, 76, 70>>), flavor |-> FlavorNativeLinux, probe |-> TRUE],
           [match |-> magic(<<35, 33>>), flavor |-> FlavorScript, probe |-> TRUE],
           [match |-> magic(<<208, 207, 17, 224, 161, 177, 26, 225>>), flavor |-> FlavorMSI,
            probe |-> FALSE],
           [match |-> magic(<<80, 75, 3, 4>>), flavor |-> FlavorJar, probe |-> TRUE],
           [match |-> TRUE, flavor |-> "", probe |-> FALSE] >>

FirstRule(f) ==
    LET rules == SniffRules(f)
    IN  rules[CHOOSE i \in 1..Len(rules) :
                  rules[i].match /\ \A j \in 1..(i - 1) : ~rules[j].match]

\* what the rule answers for the file: an error, no candidate (""), or a flavor
Answer(rule, f) ==
    IF rule.probe /\ f.probe = "err" THEN "error"
    ELSE IF rule.probe /\ f.probe = "miss" THEN ""
    ELSE rule.flavor

SniffAnswer ==
    IF sniffed.err THEN "error" ELSE IF sniffed.c = Nil THEN "" ELSE sniffed.c.Flavor

\* C10: Sniff answers by the first rule that matches, the rules on the name
\* before the ones on the content: index.html, conf.lua, .love, .exe with a PE
\* probe that does not miss, .bat/.cmd, fewer than 8 readable bytes, then the
\* magic numbers; otherwise no candidate.
C10_FirstRuleWins ==
    pc = "sniffDone" =>
        /\ SniffAnswer = Answer(FirstRule(file), file)
        /\ sniffed.err => sniffed.c = Nil

\* a name rule wins over content with another magic, and a short file that
\* matches no name rule gives nothing
C10_Witness ==
    /\ pc = "sniffDone"
    /\ \/ /\ Base(LowerPath(file.Path)) = <<"index", "html">>
          /\ file.content = <<127, 69, 76, 70, 2, 1, 1, 0>>
          /\ SniffAnswer = FlavorHTML
       \/ /\ file.Path = << <<"game">> >>
          /\ Len(file.content) = 7
          /\ SniffAnswer = ""

SegmentCount(p) == Cardinality(DOMAIN p)

\* C8: every candidate of a verdict of Configure has a non-empty Path and a
\* Depth equal to the number of segments of its Path, also after Filter and
\* FixPermissions calls.
C8_PathAndDepth ==
    pc \in {"configured", "used"} =>
        \A i \in 1..Len(verdict) :
            /\ verdict[i].Path # << >>
            /\ verdict[i].Depth = SegmentCount(verdict[i].Path)

\* a sniffed candidate whose probe set no Path, after a FixPermissions call
\* and a Filter call that dropped a candidate
C8_Witness ==
    /\ pc = "used"
    /\ Len(verdict) = 1
    /\ Len(Configure(container).cs) = 2
    /\ verdict[1].Flavor = FlavorNativeLinux
    /\ verdict[1].Mode = 0
    /\ verdict[1].Depth = 1

\* a candidate of an HTML fallback: an HTML candidate that Sniff does not emit
IsFallback(c) == c.Flavor = FlavorHTML /\ Base(LowerPath(c.Path)) # <<"index", "html">>

TopLevelHTML(ct) ==
    {ct.Files[i].Path : i \in {k \in 1..Len(ct.Files) :
        /\ Len(ct.Files[k].Path) = 1
        /\ Len(ct.Files[k].Path[1]) >= 2
        /\ ToLower(Last(ct.Files[k].Path[1])) = "html"}}

\* C9: a verdict of Configure that holds a fallback HTML candidate holds only
\* fallback HTML candidates, one for each depth-1 file ending in .html, and no
\* file yields two candidates.
C9_FallbackOnlyWhenEmpty ==
    pc = "configured" =>
        /\ (\E i \in 1..Len(verdict) : IsFallback(verdict[i])) =>
              /\ \A i \in 1..Len(verdict) : IsFallback(verdict[i])
              /\ {verdict[i].Path : i \in 1..Len(verdict)} = TopLevelHTML(container)
        /\ \A i, j \in 1..Len(verdict) :
              (i # j /\ verdict[i].Path \in {container.Files[k].Path : k \in 1..Len(container.Files)})
                  => verdict[i].Path # verdict[j].Path

\* the top-level fallback fired for two files
C9_Witness ==
    /\ pc = "configured"
    /\ Len(verdict) = 2
    /\ \A i \in 1..Len(verdict) : IsFallback(verdict[i])

(***************************************************************************)
(* Properties of FixPermissions.                                           *)
(***************************************************************************)
\* a step of SpecConfigure that is a FixPermissions call
FixStep ==
    /\ pc \in {"configured", "used"}
    /\ pc' \in {"used", "fixFailed"}
    /\ "DryRun" \in DOMAIN params'

\* the candidate is one FixPermissions has to fix: a flavor that is run
\* directly, and a Mode without the bit 0o100
NeedsFix(c) ==
    /\ c.Flavor \in {FlavorNativeLinux, FlavorNativeMacos, FlavorScript}
    /\ c.Mode % 128 < 64

\* the paths of the candidates of cs that need a fix, in the order of cs
PathsToFix(cs) ==
    LET sel == SelectSeq(cs, NeedsFix)
    IN  [i \in 1..Len(sel) |-> sel[i].Path]

\* the modes on disk once the files at these paths are 0o755
Chmodded(md, ps) == [q \in DOMAIN md |-> IF q \in Range(ps) THEN 493 ELSE md[q]]

\* the candidates with the Mode of the first n zeroed
Zeroed(cs, n) == [i \in 1..Len(cs) |-> IF i <= n THEN [cs[i] EXCEPT !.Mode = 0] ELSE cs[i]]

\* C11: a FixPermissions call that succeeds returns, in candidate order, the
\* paths of exactly the NativeLinux, NativeMacos and Script candidates whose
\* Mode lacks 0o100, sets exactly those files to 0o755 unless DryRun (then no
\* file changes), and leaves every candidate with Mode 0; a call that fails
\* on a chmod returns no paths and leaves the failing candidate and the ones
\* after it unprocessed.
C11_FixPermissions ==
    [][FixStep =>
          \/ /\ pc' = "used"
             /\ fixed' = PathsToFix(verdict)
             /\ modes' = IF params'.DryRun THEN modes
                         ELSE Chmodded(modes, PathsToFix(verdict))
             /\ verdict' = Zeroed(verdict, Len(verdict))
          \/ /\ pc' = "fixFailed"
             /\ ~params'.DryRun
             /\ fixed' = << >>
             /\ \E k \in 1..Len(verdict) :
                   /\ NeedsFix(verdict[k])
                   /\ verdict' = Zeroed(verdict, k - 1)
                   /\ modes' = Chmodded(modes, PathsToFix(SubSeq(verdict, 1, k - 1)))]_vars

\* a call without DryRun fixed one file of two candidates and left the other
\* file alone
C11_Witness ==
    /\ pc = "used"
    /\ "DryRun" \in DOMAIN params
    /\ ~params.DryRun
    /\ Len(verdict) = 2
    /\ Len(fixed) = 1
    /\ \A i \in 1..2 : verdict[i].Mode = 0
    /\ modes[fixed[1]] = 493
    /\ \E i \in 1..Len(container.Files) :
          container.Files[i].Path = fixed[1] /\ container.Files[i].Mode = 420
    /\ \E q \in DOMAIN modes : modes[q] = 420

(***************************************************************************)
(* Properties of Verdict.Filter on its return paths.                       *)
(***************************************************************************)
\* candidates of this flavor stand next to candidates of another flavor
Mixed(cs, flavor) ==
    /\ \E i \in 1..Len(cs) : cs[i].Flavor = flavor
    /\ \E i \in 1..Len(cs) : cs[i].Flavor # flavor

\* C12: whatever return Filter takes, its output is all HTML or holds no HTML
\* candidate, and is all Jar or holds no Jar candidate.
C12_LastResort ==
    Filtered => ~Mixed(verdict, FlavorHTML) /\ ~Mixed(verdict, FlavorJar)

\* a call on HTML, Jar and other candidates that dropped the HTML ones, then
\* the Jar ones, and returned the rest
C12_Witness ==
    /\ pc = "filtered"
    /\ Mixed(input, FlavorHTML)
    /\ Mixed(input, FlavorJar)
    /\ Ran("html")
    /\ Ran("jar")
    /\ Len(verdict) > 0

\* C13: whatever return Filter takes, a singleton short-circuit or another
\* early return included, no candidate of its output has a Path that an
\* exclude pattern of the blacklist matches, or a total score <= 0.
C13_NoExcludedCandidate ==
    Filtered => \A i \in 1..Len(verdict) :
                    /\ ~Excluded(verdict[i])
                    /\ 100 - SumDeltas(verdict[i], 1) > 0

====
